---- MODULE Spec2Model ----
(***************************************************************************)
(* Model of the GeoJSON canvas engine of react-geocanvas                   *)
(* (GeoCanvasFull, src/GeoJSONCanvas.tsx): extraction, bounds, fitting,    *)
(* rendering, hit-testing and the pointer handlers, as a state machine.    *)
(*                                                                         *)
(* JavaScript numbers are modelled as exact rationals extended with NaN,   *)
(* +Infinity and -Infinity; JavaScript values as tagged records.           *)
(***************************************************************************)
EXTENDS Integers, Sequences, FiniteSets, TLC

(***************************************************************************)
(* Numbers: [t |-> "fin", n, d] is the rational n/d (d > 0, lowest terms); *)
(* "nan", "pinf" and "ninf" are the IEEE specials.  The sign of zero is    *)
(* not tracked: no expression of the program divides by a zero.            *)
(***************************************************************************)
Abs(i) == IF i < 0 THEN -i ELSE i

RECURSIVE GCD(_, _)
GCD(a, b) == IF b = 0 THEN a ELSE GCD(b, a % b)

NaN == [t |-> "nan", n |-> 0, d |-> 1]
PInf == [t |-> "pinf", n |-> 0, d |-> 1]
NInf == [t |-> "ninf", n |-> 0, d |-> 1]

\* n / d in lowest terms with a positive denominator, g the gcd of |n| and |d|
Reduced(n, d, g) ==
  IF d < 0 THEN [t |-> "fin", n |-> (-n) \div g, d |-> (-d) \div g]
  ELSE [t |-> "fin", n |-> n \div g, d |-> d \div g]

Rat(n, d) == Reduced(n, d, GCD(Abs(n), Abs(d)))

I(n) == [t |-> "fin", n |-> n, d |-> 1]

IsFinite(a) == a.t = "fin"
IsNaN(a) == a.t = "nan"
IsInf(a) == a.t \in {"pinf", "ninf"}
Sign(a) == CASE a.t = "pinf" -> 1
             [] a.t = "ninf" -> -1
             [] a.t = "fin" -> (IF a.n > 0 THEN 1 ELSE IF a.n < 0 THEN -1 ELSE 0)
             [] OTHER -> 0
InfOf(s) == IF s > 0 THEN PInf ELSE NInf

Neg(a) == CASE a.t = "fin" -> [t |-> "fin", n |-> -a.n, d |-> a.d]
            [] a.t = "pinf" -> NInf
            [] a.t = "ninf" -> PInf
            [] OTHER -> NaN

\* a + b for finite a and b, g the gcd of their denominators
AddFinite(a, b, g) ==
  Rat(a.n * (b.d \div g) + b.n * (a.d \div g), (a.d \div g) * b.d)

Add(a, b) ==
  IF IsNaN(a) \/ IsNaN(b) THEN NaN
  ELSE IF IsInf(a) /\ IsInf(b) THEN (IF a.t = b.t THEN a ELSE NaN)
  ELSE IF IsInf(a) THEN a
  ELSE IF IsInf(b) THEN b
  ELSE AddFinite(a, b, GCD(a.d, b.d))

Sub(a, b) == Add(a, Neg(b))

\* a * b for finite a and b, cancelling g1 = gcd(|a.n|, b.d) and g2 = gcd(|b.n|, a.d)
MulFinite(a, b, g1, g2) ==
  Rat((a.n \div g1) * (b.n \div g2), (a.d \div g2) * (b.d \div g1))

Mul(a, b) ==
  IF IsNaN(a) \/ IsNaN(b) THEN NaN
  ELSE IF IsInf(a) \/ IsInf(b)
       THEN (IF Sign(a) * Sign(b) = 0 THEN NaN ELSE InfOf(Sign(a) * Sign(b)))
  ELSE MulFinite(a, b, GCD(Abs(a.n), b.d), GCD(Abs(b.n), a.d))

Div(a, b) ==
  IF IsNaN(a) \/ IsNaN(b) THEN NaN
  ELSE IF IsInf(a) /\ IsInf(b) THEN NaN
  ELSE IF IsInf(a) THEN InfOf(Sign(a) * (IF Sign(b) < 0 THEN -1 ELSE 1))
  ELSE IF IsInf(b) THEN I(0)
  ELSE IF b.n = 0 THEN (IF a.n = 0 THEN NaN ELSE InfOf(Sign(a)))
  ELSE Mul(a, Rat(b.d, b.n))

\* a < b and a <= b as JavaScript evaluates them (false when either is NaN)
Lt(a, b) ==
  IF IsNaN(a) \/ IsNaN(b) THEN FALSE
  ELSE IF a.t = "pinf" \/ b.t = "ninf" THEN FALSE
  ELSE IF a.t = "ninf" \/ b.t = "pinf" THEN TRUE
  ELSE a.n * b.d < b.n * a.d

Le(a, b) ==
  IF IsNaN(a) \/ IsNaN(b) THEN FALSE
  ELSE a = b \/ Lt(a, b)

Gt(a, b) == Lt(b, a)

\* Math.min / Math.max: NaN if either argument is NaN
MathMin(a, b) == IF IsNaN(a) \/ IsNaN(b) THEN NaN ELSE IF Lt(b, a) THEN b ELSE a
MathMax(a, b) == IF IsNaN(a) \/ IsNaN(b) THEN NaN ELSE IF Lt(a, b) THEN b ELSE a

\* JavaScript truthiness of a number: 0 and NaN are falsy
NumTruthy(a) == ~IsNaN(a) /\ ~(a.t = "fin" /\ a.n = 0)

\* a || b on numbers
OrElse(a, b) == IF NumTruthy(a) THEN a ELSE b

\* Math.hypot(dx, dy) <= r for a finite r >= 0, decided on the squares
HypotLe(dx, dy, r) ==
  IF ~IsFinite(dx) \/ ~IsFinite(dy) THEN FALSE
  ELSE IF Lt(r, I(Abs(dx.n) \div dx.d)) \/ Lt(r, I(Abs(dy.n) \div dy.d)) THEN FALSE
  ELSE Le(Add(Mul(dx, dx), Mul(dy, dy)), Mul(r, r))

(***************************************************************************)
(* JavaScript values, as tagged records.  An ordinate is an integer number *)
(* of degrees.  Strings occur only as the value of a "type" property.      *)
(***************************************************************************)
Null == [k |-> "null"]
Undef == [k |-> "undef"]
Num(i) == [k |-> "num", v |-> i]
Str(s) == [k |-> "str", s |-> s]
Arr(items) == [k |-> "arr", items |-> items]
Obj(props) == [k |-> "obj", props |-> props]

Nullish(v) == v.k \in {"null", "undef"}
Truthy(v) == CASE v.k \in {"null", "undef"} -> FALSE
               [] v.k = "num" -> v.v # 0
               [] v.k = "str" -> v.s # ""
               [] OTHER -> TRUE
\* v.name, for a v that is not null or undefined (those throw a TypeError)
Get(v, name) == IF v.k = "obj" /\ name \in DOMAIN v.props THEN v.props[name] ELSE Undef
\* v[i] (zero-based), for a v that is not null or undefined
At(v, i) == IF v.k = "arr" /\ i < Len(v.items) THEN v.items[i + 1] ELSE Undef
\* for (const c of v) throws a TypeError unless v is iterable
Iterable(v) == v.k = "arr"
IsNumber(v) == v.k = "num"
TypeIs(v, s) == v = Str(s)
\* the number an ordinate becomes in arithmetic: null counts as 0, undefined as NaN
ToNum(v) == CASE v.k = "num" -> I(v.v)
              [] v.k = "null" -> I(0)
              [] OTHER -> NaN

(***************************************************************************)
(* Projector.  x is exact.  y = (1 - ln(tan(lat) + 1/cos(lat)) / pi) / 2   *)
(* is tabulated for the latitudes the inputs use, rounded to two decimals; *)
(* for 90 < |lat| < 270 the logarithm's argument is negative and y is NaN. *)
(***************************************************************************)
MercY(lat) ==
  CASE lat = 0 -> Rat(1, 2)
    [] lat = 66 -> Rat(1, 4)
    [] lat = -66 -> Rat(3, 4)
    [] lat = 85 -> Rat(0, 1)
    [] lat = -85 -> Rat(1, 1)
    [] lat = 60 -> Rat(29, 100)
    [] lat = -60 -> Rat(71, 100)
    [] lat = 45 -> Rat(36, 100)
    [] lat = -45 -> Rat(64, 100)
    [] Abs(lat) > 90 /\ Abs(lat) < 270 -> NaN

lonLatToMercator(lon, lat) ==
  [x |-> Div(Add(lon, I(180)), I(360)),
   y |-> IF IsFinite(lat) /\ lat.d = 1 THEN MercY(lat.n) ELSE NaN]

(***************************************************************************)
(* Geometry extractor                                                      *)
(***************************************************************************)
SyntheticFeature(g) ==
  Obj([type |-> Str("Feature"), geometry |-> g, properties |-> Obj(<<>>)])

\* the elements of (v || []) as for...of visits them; threw when v is not iterable
IterOrEmpty(v) ==
  IF ~Truthy(v) THEN [threw |-> FALSE, list |-> <<>>]
  ELSE IF Iterable(v) THEN [threw |-> FALSE, list |-> v.items]
  ELSE [threw |-> TRUE, list |-> <<>>]

\* one synthetic Feature per member of (geojson.geometries || [])
SyntheticFeatures(gs) ==
  [threw |-> gs.threw,
   list |-> [i \in 1..Len(gs.list) |-> SyntheticFeature(gs.list[i])]]

\* extractFeatures with the bare-geometry rule tried before the Feature rule
extractFeaturesBareFirst(geojson) ==
  IF ~Truthy(geojson) THEN [threw |-> FALSE, list |-> <<>>]
  ELSE IF TypeIs(Get(geojson, "type"), "FeatureCollection")
       THEN IterOrEmpty(Get(geojson, "features"))
  ELSE IF Truthy(Get(geojson, "type")) /\ Truthy(Get(geojson, "coordinates"))
       THEN [threw |-> FALSE, list |-> <<SyntheticFeature(geojson)>>]
  ELSE IF TypeIs(Get(geojson, "type"), "Feature")
       THEN [threw |-> FALSE, list |-> <<geojson>>]
  ELSE IF TypeIs(Get(geojson, "type"), "GeometryCollection")
       THEN SyntheticFeatures(IterOrEmpty(Get(geojson, "geometries")))
  ELSE [threw |-> FALSE, list |-> <<>>]

extractFeatures(geojson) ==
  IF ~Truthy(geojson) THEN [threw |-> FALSE, list |-> <<>>]
  ELSE IF TypeIs(Get(geojson, "type"), "FeatureCollection")
       THEN IterOrEmpty(Get(geojson, "features"))
  ELSE IF TypeIs(Get(geojson, "type"), "Feature")
       THEN [threw |-> FALSE, list |-> <<geojson>>]
  ELSE IF TypeIs(Get(geojson, "type"), "GeometryCollection")
       THEN SyntheticFeatures(IterOrEmpty(Get(geojson, "geometries")))
  ELSE IF Truthy(Get(geojson, "type")) /\ Truthy(Get(geojson, "coordinates"))
       THEN [threw |-> FALSE, list |-> <<SyntheticFeature(geojson)>>]
  ELSE [threw |-> FALSE, list |-> <<>>]

(***************************************************************************)
(* Bounds calculator.  The fold's accumulator carries the four extremes    *)
(* and whether a TypeError was thrown.                                     *)
(***************************************************************************)
BoundsStart ==
  [threw |-> FALSE, minX |-> PInf, minY |-> PInf, maxX |-> NInf, maxY |-> NInf]

\* the fold step of one coordinate pair projected to p
Extend(acc, p) ==
  [threw |-> FALSE,
   minX |-> MathMin(acc.minX, p.x), minY |-> MathMin(acc.minY, p.y),
   maxX |-> MathMax(acc.maxX, p.x), maxY |-> MathMax(acc.maxY, p.y)]

RECURSIVE visitCoords(_, _)
RECURSIVE visitEach(_, _, _)
visitCoords(coords, acc) ==
  IF acc.threw THEN acc
  ELSE IF Nullish(coords) THEN [acc EXCEPT !.threw = TRUE]
  ELSE IF IsNumber(At(coords, 0)) /\ IsNumber(At(coords, 1))
       THEN Extend(acc, lonLatToMercator(ToNum(At(coords, 0)), ToNum(At(coords, 1))))
  ELSE IF ~Iterable(coords) THEN [acc EXCEPT !.threw = TRUE]
  ELSE visitEach(coords.items, 1, acc)

visitEach(items, i, acc) ==
  IF i > Len(items) \/ acc.threw THEN acc
  ELSE visitEach(items, i + 1, visitCoords(items[i], acc))

CoordTypes ==
  {"Point", "MultiPoint", "LineString", "MultiLineString", "Polygon", "MultiPolygon"}

RECURSIVE visitMembers(_, _, _)
visitMembers(gs, i, acc) ==
  IF i > Len(gs) \/ acc.threw THEN acc
  ELSE IF Nullish(gs[i]) THEN [acc EXCEPT !.threw = TRUE]
  ELSE visitMembers(gs, i + 1, visitCoords(Get(gs[i], "coordinates"), acc))

\* for (const g of geom.geometries || []) visitCoords(g.coordinates)
visitCollection(gs, acc) ==
  IF gs.threw THEN [acc EXCEPT !.threw = TRUE] ELSE visitMembers(gs.list, 1, acc)

\* the branches on the type of a feature's geometry
visitGeometry(geom, acc) ==
  IF ~Truthy(geom) THEN acc
  ELSE IF \E t \in CoordTypes : TypeIs(Get(geom, "type"), t)
       THEN visitCoords(Get(geom, "coordinates"), acc)
  ELSE IF TypeIs(Get(geom, "type"), "GeometryCollection")
       THEN visitCollection(IterOrEmpty(Get(geom, "geometries")), acc)
  ELSE acc

visitFeature(f, acc) ==
  IF Nullish(f) THEN [acc EXCEPT !.threw = TRUE]
  ELSE visitGeometry(Get(f, "geometry"), acc)

RECURSIVE visitFeatures(_, _, _)
visitFeatures(fs, i, acc) ==
  IF i > Len(fs) \/ acc.threw THEN acc
  ELSE visitFeatures(fs, i + 1, visitFeature(fs[i], acc))

NoBounds ==
  [present |-> FALSE, minX |-> NaN, minY |-> NaN, maxX |-> NaN, maxY |-> NaN]

\* what the function returns after the fold ended in acc
BoundsResult(acc) ==
  IF acc.threw THEN [threw |-> TRUE, bounds |-> NoBounds]
  ELSE [threw |-> FALSE,
        bounds |-> [present |-> TRUE, minX |-> acc.minX, minY |-> acc.minY,
                    maxX |-> acc.maxX, maxY |-> acc.maxY]]

\* the bounds of the extracted features ex
BoundsOfFeatures(ex) ==
  IF ex.threw THEN [threw |-> TRUE, bounds |-> NoBounds]
  ELSE IF Len(ex.list) = 0 THEN [threw |-> FALSE, bounds |-> NoBounds]
  ELSE BoundsResult(visitFeatures(ex.list, 1, BoundsStart))

\* [threw, bounds]: bounds.present = FALSE is the null the function returns
getBoundsOfGeojson(geojson) == BoundsOfFeatures(extractFeatures(geojson))

(***************************************************************************)
(* Viewport: forward transform and the fit algorithm                       *)
(***************************************************************************)
InitialViewport == [scale |-> I(1), translateX |-> I(0), translateY |-> I(0)]

mercatorToCanvas(vp, xNorm, yNorm, ctxW, ctxH) ==
  [x |-> Add(Mul(Mul(xNorm, I(ctxW)), vp.scale), vp.translateX),
   y |-> Add(Mul(Mul(yNorm, I(ctxH)), vp.scale), vp.translateY)]

\* the divisor that replaces a zero (or NaN) world extent: 1e-6
WorldEpsDen == 1000000
WorldEps == Rat(1, WorldEpsDen)

\* (css - padding * 2) / world
FitScale(css, padding, world) == Div(Sub(I(css), I(padding * 2)), world)

\* -min * css * scale + padding + (css - (world * css * scale) - padding * 2) / 2
FitTranslate(min, world, css, padding, scale) ==
  Add(Add(Mul(Mul(Neg(min), I(css)), scale), I(padding)),
      Div(Sub(Sub(I(css), Mul(Mul(world, I(css)), scale)), I(padding * 2)), I(2)))

FitWithScale(bounds, cssW, cssH, padding, worldW, worldH, scale) ==
  [scale |-> scale,
   translateX |-> FitTranslate(bounds.minX, worldW, cssW, padding, scale),
   translateY |-> FitTranslate(bounds.minY, worldH, cssH, padding, scale)]

FitWorld(bounds, cssW, cssH, padding, worldW, worldH) ==
  FitWithScale(bounds, cssW, cssH, padding, worldW, worldH,
               MathMin(FitScale(cssW, padding, worldW), FitScale(cssH, padding, worldH)))

\* the viewport fitBounds stores, for present bounds
FitViewport(bounds, cssW, cssH, padding) ==
  FitWorld(bounds, cssW, cssH, padding,
           OrElse(Sub(bounds.maxX, bounds.minX), WorldEps),
           OrElse(Sub(bounds.maxY, bounds.minY), WorldEps))

(***************************************************************************)
(* Renderer.  The surface records the path calls that carry coordinates:   *)
(* [op, x, y, r, fi], fi the position of the feature that issued the call. *)
(* A style is [radius, lineWidth] (0 stands for an absent field).          *)
(***************************************************************************)
DefaultRadius == 4
DrawRadiusFallback == 3
DefaultLineWidth == 2
DefaultStyle == [radius |-> DefaultRadius, lineWidth |-> DefaultLineWidth]

\* the accumulator of a render pass: started is the flag of the path under
\* construction
DrawStart == [threw |-> FALSE, started |-> FALSE, calls |-> <<>>]
Threw(acc) == [acc EXCEPT !.threw = TRUE]

\* the pixel of the projected point p
PixelAt(p, vp, ctxW, ctxH) == mercatorToCanvas(vp, p.x, p.y, ctxW, ctxH)

\* drawCoords: the pixel of a coordinate pair, none for anything else
drawCoords(coords, vp, ctxW, ctxH) ==
  IF IsNumber(At(coords, 0)) /\ IsNumber(At(coords, 1))
  THEN [some |-> TRUE,
        c |-> PixelAt(lonLatToMercator(ToNum(At(coords, 0)), ToNum(At(coords, 1))),
                      vp, ctxW, ctxH)]
  ELSE [some |-> FALSE, c |-> [x |-> NaN, y |-> NaN]]

ArcCall(c, style, fi) ==
  [op |-> "arc", x |-> c.x, y |-> c.y,
   r |-> IF style.radius # 0 THEN style.radius ELSE DrawRadiusFallback, fi |-> fi]

\* if (!c) continue; ctx.arc(...)
ArcStep(acc, d, style, fi) ==
  IF d.some THEN [acc EXCEPT !.calls = Append(@, ArcCall(d.c, style, fi))] ELSE acc

RECURSIVE drawPoints(_, _, _, _, _, _, _, _)
drawPoints(items, i, acc, vp, ctxW, ctxH, style, fi) ==
  IF i > Len(items) \/ acc.threw THEN acc
  ELSE IF Nullish(items[i]) THEN Threw(acc)
  ELSE drawPoints(items, i + 1,
                  ArcStep(acc, drawCoords(items[i], vp, ctxW, ctxH), style, fi),
                  vp, ctxW, ctxH, style, fi)

\* if (!c) continue; moveTo the first pixel of the path, lineTo the later ones
PathStep(acc, d, fi) ==
  IF d.some
  THEN [threw |-> FALSE, started |-> TRUE,
        calls |-> Append(acc.calls,
                         [op |-> IF acc.started THEN "lineTo" ELSE "moveTo",
                          x |-> d.c.x, y |-> d.c.y, r |-> 0, fi |-> fi])]
  ELSE acc

\* one ring or line: for (const coord of ring) ...
RECURSIVE drawRing(_, _, _, _, _, _, _)
drawRing(items, i, acc, vp, ctxW, ctxH, fi) ==
  IF i > Len(items) \/ acc.threw THEN acc
  ELSE IF Nullish(items[i]) THEN Threw(acc)
  ELSE drawRing(items, i + 1, PathStep(acc, drawCoords(items[i], vp, ctxW, ctxH), fi),
                vp, ctxW, ctxH, fi)

\* for (const ring of rings) for (const coord of ring) ...; started is reset
\* for each ring when perRing (lines), kept otherwise (the rings of a polygon)
RECURSIVE drawRings(_, _, _, _, _, _, _, _)
drawRings(rings, i, acc, vp, ctxW, ctxH, fi, perRing) ==
  IF i > Len(rings) \/ acc.threw THEN acc
  ELSE IF ~Iterable(rings[i]) THEN Threw(acc)
  ELSE drawRings(rings, i + 1,
                 drawRing(rings[i].items, 1,
                          IF perRing THEN [acc EXCEPT !.started = FALSE] ELSE acc,
                          vp, ctxW, ctxH, fi),
                 vp, ctxW, ctxH, fi, perRing)

\* for (const poly of polys) { ctx.beginPath(); let started = false; ... }
RECURSIVE drawPolys(_, _, _, _, _, _, _)
drawPolys(polys, i, acc, vp, ctxW, ctxH, fi) ==
  IF i > Len(polys) \/ acc.threw THEN acc
  ELSE IF ~Iterable(polys[i]) THEN Threw(acc)
  ELSE drawPolys(polys, i + 1,
                 drawRings(polys[i].items, 1, [acc EXCEPT !.started = FALSE],
                           vp, ctxW, ctxH, fi, FALSE),
                 vp, ctxW, ctxH, fi)

\* type === 'X' ? [geom.coordinates] : geom.coordinates
OneOrMany(single, coords) == IF single THEN Arr(<<coords>>) ELSE coords

drawLines(lines, acc, vp, ctxW, ctxH, fi) ==
  IF ~Iterable(lines) THEN Threw(acc)
  ELSE drawRings(lines.items, 1, acc, vp, ctxW, ctxH, fi, TRUE)

drawPolygons(polys, acc, vp, ctxW, ctxH, fi) ==
  IF ~Iterable(polys) THEN Threw(acc)
  ELSE drawPolys(polys.items, 1, acc, vp, ctxW, ctxH, fi)

\* the branches of drawFeature on the type of the geometry geom
drawGeometry(geom, coords, fi, acc, vp, ctxW, ctxH, style) ==
  IF ~Truthy(geom) THEN acc
  ELSE IF TypeIs(Get(geom, "type"), "Point")
       THEN IF Nullish(coords) THEN Threw(acc)
            ELSE drawPoints(<<coords>>, 1, acc, vp, ctxW, ctxH, style, fi)
  ELSE IF TypeIs(Get(geom, "type"), "MultiPoint")
       THEN IF ~Iterable(coords) THEN Threw(acc)
            ELSE drawPoints(coords.items, 1, acc, vp, ctxW, ctxH, style, fi)
  ELSE IF TypeIs(Get(geom, "type"), "LineString")
          \/ TypeIs(Get(geom, "type"), "MultiLineString")
       THEN drawLines(OneOrMany(TypeIs(Get(geom, "type"), "LineString"), coords),
                      acc, vp, ctxW, ctxH, fi)
  ELSE IF TypeIs(Get(geom, "type"), "Polygon") \/ TypeIs(Get(geom, "type"), "MultiPolygon")
       THEN drawPolygons(OneOrMany(TypeIs(Get(geom, "type"), "Polygon"), coords),
                         acc, vp, ctxW, ctxH, fi)
  ELSE acc

\* f is an internal feature [id, feature]; acc the calls issued so far
drawFeature(f, fi, acc, vp, ctxW, ctxH, style) ==
  IF ~Truthy(f.feature) THEN acc
  ELSE drawGeometry(Get(f.feature, "geometry"),
                    Get(Get(f.feature, "geometry"), "coordinates"),
                    fi, acc, vp, ctxW, ctxH, style)

RECURSIVE drawAll(_, _, _, _, _, _, _)
drawAll(features, i, acc, vp, ctxW, ctxH, style) ==
  IF i > Len(features) \/ acc.threw THEN acc
  ELSE drawAll(features, i + 1,
               drawFeature(features[i], i, acc, vp, ctxW, ctxH, style),
               vp, ctxW, ctxH, style)

(***************************************************************************)
(* Hit-tester                                                              *)
(***************************************************************************)
PointSlack == 4
LineSlack == 6
\* the term added to the divisor in pointInPolygon: 1e-7
RayEpsDen == 10000000

\* the pixel of the pair (a[0], a[1]), whatever a[0] and a[1] are
PixelOf(a, vp, cssW, cssH) ==
  PixelAt(lonLatToMercator(ToNum(At(a, 0)), ToNum(At(a, 1))), vp, cssW, cssH)

\* the crossing test of one edge from vertex pj to vertex pi
Intersect(x, y, pi, pj) ==
  (Gt(pi.y, y) # Gt(pj.y, y))
  /\ Lt(x, Add(Div(Mul(Sub(pj.x, pi.x), Sub(y, pi.y)),
                    Add(Sub(pj.y, pi.y), Rat(1, RayEpsDen))), pi.x))

\* for (let i = 0, j = poly.length - 1; i < poly.length; j = i++)
RECURSIVE pointInPolygonFrom(_, _, _, _, _)
pointInPolygonFrom(x, y, poly, i, inside) ==
  IF i > Len(poly) THEN inside
  ELSE pointInPolygonFrom(x, y, poly, i + 1,
                          IF Intersect(x, y, poly[i],
                                       poly[IF i = 1 THEN Len(poly) ELSE i - 1])
                          THEN ~inside ELSE inside)

pointInPolygon(x, y, poly) == pointInPolygonFrom(x, y, poly, 1, FALSE)

\* t = ((px - x1) * dx + (py - y1) * dy) / (dx * dx + dy * dy)
SegmentT(px, py, x1, y1, dx, dy) ==
  Div(Add(Mul(Sub(px, x1), dx), Mul(Sub(py, y1), dy)),
      Add(Mul(dx, dx), Mul(dy, dy)))

\* Math.hypot(px - cx, py - cy) <= tol for cx = x1 + tt * dx, cy = y1 + tt * dy
ClosestLe(px, py, x1, y1, dx, dy, tt, tol) ==
  HypotLe(Sub(px, Add(x1, Mul(tt, dx))), Sub(py, Add(y1, Mul(tt, dy))), tol)

\* distanceToSegment <= tol, for dx = x2 - x1 and dy = y2 - y1
distanceAlongLe(px, py, x1, y1, dx, dy, tol) ==
  IF dx = I(0) /\ dy = I(0) THEN HypotLe(Sub(px, x1), Sub(py, y1), tol)
  ELSE ClosestLe(px, py, x1, y1, dx, dy,
                 MathMax(I(0), MathMin(I(1), SegmentT(px, py, x1, y1, dx, dy))), tol)

\* distanceToSegment(px, py, x1, y1, x2, y2) <= tol
distanceToSegmentLe(px, py, x1, y1, x2, y2, tol) ==
  distanceAlongLe(px, py, x1, y1, Sub(x2, x1), Sub(y2, y1), tol)

\* the outcome of testing one feature is "hit", "miss" or "throw"
Outcome(hit) == IF hit THEN "hit" ELSE "miss"
\* the first outcome that is not a miss
OrElseNext(one, rest) == IF one = "miss" THEN rest ELSE one

\* Math.hypot(c.x - x, c.y - y) <= r
WithinRadius(c, x, y, r) == HypotLe(Sub(c.x, x), Sub(c.y, y), r)

HitPoint(x, y, coords, vp, cssW, cssH, style) ==
  IF Nullish(coords) THEN "throw"
  ELSE Outcome(WithinRadius(
         PixelOf(coords, vp, cssW, cssH), x, y,
         I((IF style.radius # 0 THEN style.radius ELSE DefaultRadius) + PointSlack)))

\* the outer ring poly[0] of one polygon
HitRing(x, y, ring, vp, cssW, cssH) ==
  IF ring.k # "arr" THEN "throw"
  ELSE IF \E n \in 1..Len(ring.items) : Nullish(ring.items[n]) THEN "throw"
  ELSE Outcome(pointInPolygon(x, y, [n \in 1..Len(ring.items) |->
                                       PixelOf(ring.items[n], vp, cssW, cssH)]))

RECURSIVE HitPolys(_, _, _, _, _, _, _)
HitPolys(x, y, polys, i, vp, cssW, cssH) ==
  IF i > Len(polys) THEN "miss"
  ELSE IF Nullish(polys[i]) THEN "throw"
  ELSE OrElseNext(HitRing(x, y, At(polys[i], 0), vp, cssW, cssH),
                  HitPolys(x, y, polys, i + 1, vp, cssW, cssH))

\* the segment from pixel pa to pixel pb
HitSegment(x, y, pa, pb, tol) ==
  Outcome(distanceToSegmentLe(x, y, pa.x, pa.y, pb.x, pb.y, tol))

RECURSIVE HitLine(_, _, _, _, _, _, _, _)
HitLine(x, y, line, vi, vp, cssW, cssH, tol) ==
  IF vi + 1 > Len(line) THEN "miss"
  ELSE IF Nullish(line[vi]) \/ Nullish(line[vi + 1]) THEN "throw"
  ELSE OrElseNext(HitSegment(x, y, PixelOf(line[vi], vp, cssW, cssH),
                             PixelOf(line[vi + 1], vp, cssW, cssH), tol),
                  HitLine(x, y, line, vi + 1, vp, cssW, cssH, tol))

RECURSIVE HitLines(_, _, _, _, _, _, _, _)
HitLines(x, y, lines, i, vp, cssW, cssH, tol) ==
  IF i > Len(lines) THEN "miss"
  ELSE IF Nullish(lines[i]) THEN "throw"
  ELSE OrElseNext(IF lines[i].k = "arr"
                  THEN HitLine(x, y, lines[i].items, 1, vp, cssW, cssH, tol)
                  ELSE "miss",
                  HitLines(x, y, lines, i + 1, vp, cssW, cssH, tol))

HitPolygons(x, y, polys, vp, cssW, cssH) ==
  IF ~Iterable(polys) THEN "throw"
  ELSE HitPolys(x, y, polys.items, 1, vp, cssW, cssH)

HitLineStrings(x, y, lines, vp, cssW, cssH, tol) ==
  IF ~Iterable(lines) THEN "throw"
  ELSE HitLines(x, y, lines.items, 1, vp, cssW, cssH, tol)

\* the branches of hitTest on the type of the geometry geom
HitGeometry(x, y, geom, coords, vp, cssW, cssH, style) ==
  IF ~Truthy(geom) THEN "miss"
  ELSE IF TypeIs(Get(geom, "type"), "Point")
       THEN HitPoint(x, y, coords, vp, cssW, cssH, style)
  ELSE IF TypeIs(Get(geom, "type"), "Polygon") \/ TypeIs(Get(geom, "type"), "MultiPolygon")
       THEN HitPolygons(x, y, OneOrMany(TypeIs(Get(geom, "type"), "Polygon"), coords),
                        vp, cssW, cssH)
  ELSE IF TypeIs(Get(geom, "type"), "LineString")
          \/ TypeIs(Get(geom, "type"), "MultiLineString")
       THEN HitLineStrings(x, y, OneOrMany(TypeIs(Get(geom, "type"), "LineString"), coords),
                           vp, cssW, cssH,
                           I((IF style.lineWidth # 0 THEN style.lineWidth
                              ELSE DefaultLineWidth) + LineSlack))
  ELSE "miss"

HitFeature(x, y, f, vp, cssW, cssH, style) ==
  IF Nullish(f.feature) THEN "throw"
  ELSE HitGeometry(x, y, Get(f.feature, "geometry"),
                   Get(Get(f.feature, "geometry"), "coordinates"),
                   vp, cssW, cssH, style)

\* the scan's result after feature i gave outcome r: [threw, hit], hit the
\* position of the matched feature, 0 for none
ScanResult(r, i, rest) ==
  IF r = "throw" THEN [threw |-> TRUE, hit |-> 0]
  ELSE IF r = "hit" THEN [threw |-> FALSE, hit |-> i]
  ELSE rest

\* scans from the last feature down
RECURSIVE hitTestFrom(_, _, _, _, _, _, _, _)
hitTestFrom(x, y, features, i, vp, cssW, cssH, style) ==
  IF i = 0 THEN [threw |-> FALSE, hit |-> 0]
  ELSE ScanResult(HitFeature(x, y, features[i], vp, cssW, cssH, style), i,
                  hitTestFrom(x, y, features, i - 1, vp, cssW, cssH, style))

hitTest(x, y, features, vp, cssW, cssH, style) ==
  hitTestFrom(I(x), I(y), features, Len(features), vp, cssW, cssH, style)

(***************************************************************************)
(* Inputs: the GeoJSON documents a caller passes as the geojson prop       *)
(***************************************************************************)
Pos(lon, lat) == Arr(<<Num(lon), Num(lat)>>)
Geom(type, coords) == Obj([type |-> Str(type), coordinates |-> coords])
Feat(geom) == Obj([type |-> Str("Feature"), geometry |-> geom, properties |-> Obj(<<>>)])
FC(fs) == Obj([type |-> Str("FeatureCollection"), features |-> Arr(fs)])
PointAt(lon, lat) == Geom("Point", Pos(lon, lat))
Square == Arr(<<Pos(-90, -66), Pos(90, -66), Pos(90, 66), Pos(-90, 66), Pos(-90, -66)>>)

DocNames ==
  {"null", "unknown", "emptyFC", "bareFC", "overlap", "spread", "polygon",
   "line", "collection", "multiPoint", "polar", "noGeometry", "emptyCoords",
   "nullEntry", "missingCoords", "emptyPolygon", "featureWithCoords"}

Doc(name) ==
  CASE name = "null" -> Null
    [] name = "unknown" -> Obj([type |-> Str("Topology")])
    [] name = "emptyFC" -> FC(<<>>)
    [] name = "bareFC" -> Obj([type |-> Str("FeatureCollection")])
    [] name = "overlap" -> FC(<<Feat(PointAt(-90, 66)), Feat(PointAt(0, 0)), Feat(PointAt(0, 0))>>)
    [] name = "spread" ->
         FC(<<Feat(PointAt(-90, 66)), Feat(PointAt(0, 0)), Feat(PointAt(90, -66))>>)
    [] name = "polygon" -> Feat(Geom("Polygon", Arr(<<Square>>)))
    [] name = "line" -> Geom("LineString", Arr(<<Pos(-90, 66), Pos(0, 66), Pos(90, -66)>>))
    [] name = "collection" ->
         Obj([type |-> Str("GeometryCollection"),
              geometries |-> Arr(<<PointAt(-90, -66),
                                   Geom("MultiPolygon", Arr(<<Arr(<<Square>>)>>))>>)])
    [] name = "multiPoint" ->
         FC(<<Feat(PointAt(-180, 85)),
              Feat(Geom("MultiPoint", Arr(<<Pos(0, 0), Pos(180, -85)>>)))>>)
    [] name = "polar" ->
         FC(<<Feat(Geom("LineString", Arr(<<Pos(-90, 66), Pos(0, 150), Pos(90, -66)>>)))>>)
    [] name = "noGeometry" ->
         FC(<<Obj([type |-> Str("Feature"), geometry |-> Null, properties |-> Obj(<<>>)])>>)
    [] name = "emptyCoords" -> FC(<<Feat(Geom("Point", Arr(<<>>)))>>)
    [] name = "nullEntry" -> FC(<<Null, Feat(PointAt(0, 0)), Feat(PointAt(90, 66))>>)
    [] name = "missingCoords" -> FC(<<Feat(Obj([type |-> Str("Point")]))>>)
    [] name = "emptyPolygon" -> Feat(Geom("Polygon", Arr(<<>>)))
    [] name = "featureWithCoords" ->
         Obj([type |-> Str("Feature"),
              geometry |-> Geom("LineString", Arr(<<Pos(-90, -66), Pos(90, 66)>>)),
              coordinates |-> Pos(90, 66), properties |-> Obj(<<>>)])

\* the documents the engine's state machine starts from
EngineDocs ==
  {"null", "overlap", "spread", "polygon", "line", "collection", "multiPoint",
   "polar", "noGeometry", "emptyCoords", "nullEntry", "missingCoords", "emptyPolygon"}

\* the documents a later input change brings
ChangeDocs == {"null", "spread", "multiPoint"}

\* the caller's identifier functions: absent, or
\* (feature, index) => (feature && feature.geometry ? 10 : 20) + index
IdFns == {"none", "byGeometry"}
getFeatureId(fn, f, i) ==
  (IF Truthy(f) /\ Truthy(Get(f, "geometry")) THEN 10 ELSE 20) + i

\* the caller's style overrides: none, or point radius 1 and line width 1
Styles == {DefaultStyle, [radius |-> 1, lineWidth |-> 1]}

\* surface sizes in CSS pixels, paddings, and the pointer positions sampled
CanvasSizes == {[w |-> 8, h |-> 8]}
Paddings == {1}
Pointer == {[x |-> 0, y |-> 0], [x |-> 4, y |-> 4]}

(***************************************************************************)
(* State                                                                   *)
(***************************************************************************)
MaxInputChanges == 1
NoId == -1

VARIABLES
  props,        \* the component's props: geojson (a document name), styles,
                \* width, height, padding, fitBoundsOnLoad, getFeatureId
  phase,        \* "initial" (constructed, effects not yet run), "mounted", "unmounted"
  canvasRef,    \* TRUE while canvasRef.current is the attached canvas
  stateRef,     \* stateRef.current: viewport, features, featureBounds
  surface,      \* the canvas: painted (a render pass cleared it), the path calls
                \* since then, and the document whose features that pass drew
  frames,       \* pending requestAnimationFrame callbacks: the styles each closure
                \* holds, and whether the first commit scheduled it
  listeners,    \* TRUE while onMove and onClick are registered on the canvas
  lastHoverId,  \* the lastHoverId of the registered onMove closure
  last,         \* what the last operation did: op ("move", "click", "export",
                \* "frame", "fit" or "other"), the pointer position pt, threw, hit (the position
                \* of the feature hitTest returned, 0 for none), hover and click
                \* (the callback was invoked), changed (a move's hit identifier
                \* differs from the previous sample's), exported (a non-empty
                \* data URL)
  sampleId,     \* the hit identifier of the latest pointer-move sample
  changes       \* number of input changes so far

vars == <<props, phase, canvasRef, stateRef, surface, frames, listeners,
          lastHoverId, last, sampleId, changes>>

NoPoint == [x |-> -1, y |-> -1]
Quiet(op) == [op |-> op, pt |-> NoPoint, threw |-> FALSE, hit |-> 0,
              hover |-> FALSE, click |-> FALSE, changed |-> FALSE,
              exported |-> FALSE]

InitWith(docs, fns) ==
  /\ props \in [geojson : docs, styles : {DefaultStyle},
                 size : CanvasSizes, padding : Paddings,
                 fitBoundsOnLoad : BOOLEAN, getFeatureId : fns]
  /\ phase = "initial"
  /\ canvasRef = FALSE
  /\ stateRef = [viewport |-> InitialViewport, features |-> <<>>,
                 featureBounds |-> NoBounds]
  /\ surface = [painted |-> FALSE, calls |-> <<>>, doc |-> "null"]
  /\ frames = <<>>
  /\ listeners = FALSE
  /\ lastHoverId = NoId
  /\ last = Quiet("other")
  /\ sampleId = NoId
  /\ changes = 0

Init == InitWith(EngineDocs, {"none"})

(***************************************************************************)
(* The component's callbacks, as functions of the state they read          *)
(***************************************************************************)
\* extractFeatures(gj).map((f, i) => ({ id: getFeatureId ? getFeatureId(f, i) : i, feature: f }))
InternalFeatures(list, fn) ==
  [i \in 1..Len(list) |->
     [id |-> IF fn # "none" THEN getFeatureId(fn, list[i], i - 1) ELSE i - 1,
      feature |-> list[i]]]

\* [threw, st] from the extraction ex and the bounds b: the features are
\* stored before the bounds are computed, so a throw in getBoundsOfGeojson
\* leaves the new features with the old bounds
StoreFeatures(st, ex, b, fn) ==
  IF ex.threw THEN [threw |-> TRUE, st |-> st]
  ELSE IF b.threw
       THEN [threw |-> TRUE, st |-> [st EXCEPT !.features = InternalFeatures(ex.list, fn)]]
  ELSE [threw |-> FALSE,
        st |-> [st EXCEPT !.features = InternalFeatures(ex.list, fn),
                          !.featureBounds = b.bounds]]

\* buildInternalFeatures as it would be if it replaced the whole state object,
\* so that the viewport went back to its initial value on every input change
buildInternalFeaturesResetView(st, gj, fn) ==
  StoreFeatures([st EXCEPT !.viewport = InitialViewport],
                extractFeatures(gj), getBoundsOfGeojson(gj), fn)

buildInternalFeatures(st, gj, fn) ==
  StoreFeatures(st, extractFeatures(gj), getBoundsOfGeojson(gj), fn)

\* the surface after a render pass that issued the calls of d
Painted(d, doc) ==
  [threw |-> d.threw, surface |-> [painted |-> TRUE, calls |-> d.calls, doc |-> doc]]

\* render: [threw, surface]; without a canvas the surface is left as it is
render(st, sf, canvas, size, style, doc) ==
  IF ~canvas THEN [threw |-> FALSE, surface |-> sf]
  ELSE Painted(drawAll(st.features, 1, DrawStart, st.viewport, size.w, size.h, style),
               doc)

\* stateRef.current.viewport = { scale, translateX, translateY }; render()
Refit(st, r) == [threw |-> r.threw, st |-> st, surface |-> r.surface]
FitTo(st, sf, canvas, size, style, doc) ==
  Refit(st, render(st, sf, canvas, size, style, doc))

\* fitBounds as it would be without its test of the canvas
fitBoundsNoCanvasTest(st, sf, canvas, size, padding, style, doc) ==
  IF ~st.featureBounds.present
  THEN [threw |-> FALSE, st |-> st, surface |-> sf]
  ELSE FitTo([st EXCEPT !.viewport =
                FitViewport(st.featureBounds, size.w, size.h, padding)],
             sf, canvas, size, style, doc)

\* fitBounds: [threw, st, surface]
fitBounds(st, sf, canvas, size, padding, style, doc) ==
  IF ~canvas \/ ~st.featureBounds.present
  THEN [threw |-> FALSE, st |-> st, surface |-> sf]
  ELSE FitTo([st EXCEPT !.viewport =
                FitViewport(st.featureBounds, size.w, size.h, padding)],
             sf, canvas, size, style, doc)

(***************************************************************************)
(* Operations                                                              *)
(***************************************************************************)
\* The commit of a render with props p whose geojson differs from the one
\* last committed (the first commit included): the input effect, then the
\* mouse effect.  An exception leaving an effect makes React remove the
\* component: the canvas is detached and no listener stays registered.
Commit(p, first) ==
  \E b \in {buildInternalFeatures(stateRef, Doc(p.geojson), p.getFeatureId)} :
  \E r \in {IF b.threw \/ p.fitBoundsOnLoad THEN [threw |-> b.threw, surface |-> surface]
            ELSE render(b.st, surface, TRUE, p.size, p.styles, p.geojson)} :
    /\ props' = p
    /\ stateRef' = b.st
    /\ surface' = r.surface
    /\ frames' = IF ~b.threw /\ p.fitBoundsOnLoad
                 THEN Append(frames, [styles |-> p.styles, first |-> first])
                 ELSE frames
    /\ phase' = IF r.threw THEN "unmounted" ELSE "mounted"
    /\ canvasRef' = ~r.threw
    /\ listeners' = ~r.threw
    /\ lastHoverId' = NoId
    /\ last' = [Quiet("other") EXCEPT !.threw = r.threw]
    /\ UNCHANGED sampleId

Mount ==
  /\ phase = "initial"
  /\ Commit(props, TRUE)
  /\ UNCHANGED changes

SetGeojson(doc) ==
  /\ phase = "mounted"
  /\ doc # props.geojson
  /\ changes < MaxInputChanges
  /\ Commit([props EXCEPT !.geojson = doc], FALSE)
  /\ changes' = changes + 1

\* a re-render with new styles: only the mouse effect runs again, because
\* hitTest is a new function on every render
Rerender(styles) ==
  /\ phase = "mounted"
  /\ styles # props.styles
  /\ props' = [props EXCEPT !.styles = styles]
  /\ lastHoverId' = NoId
  /\ last' = Quiet("other")
  /\ UNCHANGED <<phase, canvasRef, stateRef, surface, frames, listeners, sampleId, changes>>

\* the animation frame runs the oldest pending callback: fitBounds of the
\* render that scheduled it
AnimationFrame ==
  /\ frames # <<>>
  /\ \E f \in {fitBounds(stateRef, surface, canvasRef, props.size, props.padding,
                         Head(frames).styles, props.geojson)} :
       /\ stateRef' = f.st
       /\ surface' = f.surface
       /\ last' = [Quiet("frame") EXCEPT !.threw = f.threw]
  /\ frames' = Tail(frames)
  /\ UNCHANGED <<props, phase, canvasRef, listeners, lastHoverId, sampleId, changes>>

\* the imperative handle's fitBounds; a caller that kept the handle can
\* still call it after the component was removed
FitBoundsRequest ==
  /\ phase # "initial"
  /\ \E f \in {fitBounds(stateRef, surface, canvasRef, props.size, props.padding,
                         props.styles, props.geojson)} :
       /\ stateRef' = f.st
       /\ surface' = f.surface
       /\ last' = [Quiet("fit") EXCEPT !.threw = f.threw]
  /\ UNCHANGED <<props, phase, canvasRef, frames, listeners, lastHoverId, sampleId, changes>>

\* the imperative handle's toDataURL: the empty string without a canvas
ToDataURL ==
  /\ phase # "initial"
  /\ last' = [Quiet("export") EXCEPT !.exported = canvasRef]
  /\ UNCHANGED <<props, phase, canvasRef, stateRef, surface, frames, listeners,
                 lastHoverId, sampleId, changes>>

HitAt(pt) ==
  IF ~canvasRef THEN [threw |-> FALSE, hit |-> 0]
  ELSE hitTest(pt.x, pt.y, stateRef.features, stateRef.viewport,
               props.size.w, props.size.h, props.styles)

IdOfHit(hit) == IF hit = 0 THEN NoId ELSE stateRef.features[hit].id

\* onMove
MouseMove(pt) ==
  /\ listeners
  /\ \E h \in {HitAt(pt)} : \E hitId \in {IdOfHit(h.hit)} :
       IF h.threw
       THEN /\ last' = [Quiet("move") EXCEPT !.pt = pt, !.threw = TRUE]
            /\ UNCHANGED <<lastHoverId, sampleId>>
       ELSE /\ lastHoverId' = hitId
            /\ last' = [Quiet("move") EXCEPT !.pt = pt, !.hit = h.hit,
                                             !.hover = (hitId # lastHoverId),
                                             !.changed = (hitId # sampleId)]
            /\ sampleId' = hitId
  /\ UNCHANGED <<props, phase, canvasRef, stateRef, surface, frames, listeners, changes>>

\* onClick
MouseClick(pt) ==
  /\ listeners
  /\ \E h \in {HitAt(pt)} :
       last' = [Quiet("click") EXCEPT !.pt = pt, !.threw = h.threw, !.hit = h.hit,
                                     !.click = (h.hit # 0)]
  /\ UNCHANGED <<props, phase, canvasRef, stateRef, surface, frames, listeners,
                 lastHoverId, sampleId, changes>>

Unmount ==
  /\ phase = "mounted"
  /\ phase' = "unmounted"
  /\ canvasRef' = FALSE
  /\ listeners' = FALSE
  /\ last' = Quiet("other")
  /\ UNCHANGED <<props, stateRef, surface, frames, lastHoverId, sampleId, changes>>

Next ==
  \/ Mount
  \/ \E doc \in ChangeDocs : SetGeojson(doc)
  \/ \E styles \in Styles : Rerender(styles)
  \/ AnimationFrame
  \/ FitBoundsRequest
  \/ ToDataURL
  \/ \E pt \in Pointer : MouseMove(pt)
  \/ \E pt \in Pointer : MouseClick(pt)
  \/ Unmount

Spec == Init /\ [][Next]_vars

\* Extraction alone, over every document and identifier function
InitExtract == InitWith(DocNames, IdFns)

NextExtract ==
  \/ Mount
  \/ \E doc \in DocNames : SetGeojson(doc)
  \/ Unmount

SpecExtract == InitExtract /\ [][NextExtract]_vars

(***************************************************************************)
(* Claims                                                                  *)
(***************************************************************************)
ForwardX(xNorm) ==
  mercatorToCanvas(stateRef.viewport, xNorm, I(0), props.size.w, props.size.h).x
ForwardY(yNorm) ==
  mercatorToCanvas(stateRef.viewport, I(0), yNorm, props.size.w, props.size.h).y
Within(v, lo, hi) == Le(I(lo), v) /\ Le(v, I(hi))
FiniteBounds(b) ==
  /\ b.present
  /\ IsFinite(b.minX) /\ IsFinite(b.minY) /\ IsFinite(b.maxX) /\ IsFinite(b.maxY)
Fitted ==
  /\ FiniteBounds(stateRef.featureBounds)
  /\ stateRef.viewport =
       FitViewport(stateRef.featureBounds, props.size.w, props.size.h, props.padding)

\* C1: after a successful fitBounds on present (finite) bounds, with the
\* surface at least 2 * padding wide and high, the forward transform maps
\* the corners (minX, minY) and (maxX, maxY) of the bounds into
\* [padding, W - padding] x [padding, H - padding].
C1_FitInsidePadding ==
  (Fitted /\ props.size.w >= 2 * props.padding /\ props.size.h >= 2 * props.padding)
  => /\ Within(ForwardX(stateRef.featureBounds.minX),
               props.padding, props.size.w - props.padding)
     /\ Within(ForwardX(stateRef.featureBounds.maxX),
               props.padding, props.size.w - props.padding)
     /\ Within(ForwardY(stateRef.featureBounds.minY),
               props.padding, props.size.h - props.padding)
     /\ Within(ForwardY(stateRef.featureBounds.maxY),
               props.padding, props.size.h - props.padding)

\* the surface shows the current features under the current viewport and styles
SurfaceCurrent ==
  /\ surface.painted
  /\ \E d \in {drawAll(stateRef.features, 1, DrawStart, stateRef.viewport,
                        props.size.w, props.size.h, props.styles)} :
       ~d.threw /\ surface.calls = d.calls

\* the marker (filled circle) drawn for feature fi contains the pixel pt
MarkerContains(fi, pt) ==
  \E n \in 1..Len(surface.calls) :
    /\ surface.calls[n].fi = fi
    /\ surface.calls[n].op = "arc"
    /\ WithinRadius(surface.calls[n], I(pt.x), I(pt.y), I(surface.calls[n].r))

\* C2: hitTest returns the feature highest in the list among those whose
\* rendered geometry contains the pixel: when the marker the renderer drew
\* for a feature contains the pointer position, the feature returned is that
\* one or one later in the list (never none, never an earlier one).
C2_HitTopmostRendered ==
  (last.op \in {"move", "click"} /\ ~last.threw /\ SurfaceCurrent)
  => \A fi \in 1..Len(stateRef.features) :
       MarkerContains(fi, last.pt) => last.hit >= fi

\* C3: on a pointer-move sample the hover callback is invoked if and only if
\* the sample's hit identifier differs from that of the preceding sample
\* (none before the first sample).
C3_HoverIffChanged ==
  (last.op = "move" /\ ~last.threw) => (last.hover <=> last.changed)

\* C4: no pointer handler runs in a state where the feature list belongs to
\* the new input while the painted surface still shows the previous one.
C4_NoPartialStateSeen ==
  (last.op \in {"move", "click"} /\ surface.painted) => surface.doc = props.geojson

\* C5: once a change to an input without features has been processed, the
\* feature list is empty and no feature remains drawn on the surface.
C5_EmptyInputClearsSurface ==
  (phase = "mounted" /\ changes >= 1 /\ frames = <<>>
   /\ extractFeatures(Doc(props.geojson)).list = <<>>)
  => (stateRef.features = <<>> /\ surface.calls = <<>>)

ViewportChanged == stateRef'.viewport # stateRef.viewport
InitialAutoFit == AnimationFrame /\ Head(frames).first

\* C6 as stated: the viewport changes only in an explicit fitBounds request
\* or in the initial auto-fit.
C6_OnlyExplicitOrInitialFit ==
  [][ViewportChanged => (FitBoundsRequest \/ InitialAutoFit)]_vars

\* C6 as amended: the viewport changes only in an explicit fitBounds request
\* or in an auto-fit, the one after the first commit or the one after any
\* later input change; every other step leaves it unchanged.
C6_OnlyFitChangesViewport ==
  [][ViewportChanged => (FitBoundsRequest \/ AnimationFrame)]_vars

\* C6 witness: the auto-fit that followed a later input change has set the viewport
C6_Witness ==
  /\ phase = "mounted" /\ props.fitBoundsOnLoad /\ changes >= 1 /\ frames = <<>>
  /\ Fitted
  /\ stateRef.viewport # InitialViewport
  /\ surface.painted /\ surface.doc = props.geojson

\* no coordinate pair of the current input was visited by the bounds fold
NoLeafVisited ==
  visitFeatures(extractFeatures(Doc(props.geojson)).list, 1, BoundsStart) = BoundsStart

\* C7: the bounds are absent whenever the input has no feature or no
\* coordinate leaf; present bounds have minX <= maxX and minY <= maxY; a fit
\* made while no leaf exists leaves the viewport as it was.
C7_BoundsAbsentWithoutLeaves ==
  (phase # "initial" /\ ~last.threw)
  => \A b \in {stateRef.featureBounds} :
       /\ NoLeafVisited => ~b.present
       /\ (NoLeafVisited /\ changes = 0) => stateRef.viewport = InitialViewport
       /\ (b.present /\ ~IsNaN(b.minX) /\ ~IsNaN(b.minY) /\ ~IsNaN(b.maxX) /\ ~IsNaN(b.maxY))
          => (Le(b.minX, b.maxX) /\ Le(b.minY, b.maxY))

DocType(g) == IF g.k = "obj" /\ "type" \in DOMAIN g.props THEN g.props.type.s ELSE ""
Has(g, name) == g.k = "obj" /\ name \in DOMAIN g.props

\* a synthetic Feature with empty properties around geometry geom
Wrapped(geom) ==
  Obj([type |-> Str("Feature"), geometry |-> geom, properties |-> Obj(<<>>)])

\* the sequence the five rules of the extractor prescribe for document g
Prescribed(g) ==
  CASE DocType(g) = "FeatureCollection" ->
         (IF Has(g, "features") THEN g.props.features.items ELSE <<>>)
    [] DocType(g) = "Feature" -> <<g>>
    [] DocType(g) = "GeometryCollection" ->
         (IF Has(g, "geometries")
          THEN [i \in 1..Len(g.props.geometries.items) |->
                  Wrapped(g.props.geometries.items[i])]
          ELSE <<>>)
    [] DocType(g) \notin {"", "FeatureCollection", "Feature", "GeometryCollection"}
       /\ Has(g, "coordinates") -> <<Wrapped(g)>>
    [] OTHER -> <<>>

\* C8: the feature list holds what the extractor's rules, applied in order,
\* prescribe for the input, and the feature at (zero-based) position i has
\* identifier getFeatureId(feature, i) when an identifier function is
\* supplied and i otherwise.
C8_ExtractRules ==
  phase # "initial"
  => \A want \in {Prescribed(Doc(props.geojson))} : \A fs \in {stateRef.features} :
       /\ Len(fs) = Len(want)
       /\ \A i \in 1..Len(fs) :
            /\ fs[i].feature = want[i]
            /\ fs[i].id = IF props.getFeatureId = "none" THEN i - 1
                          ELSE getFeatureId(props.getFeatureId, want[i], i - 1)

\* C8 witness: a GeometryCollection extracted into two synthetic features
\* that the supplied identifier function numbered
C8_Witness ==
  /\ phase = "mounted" /\ props.geojson = "collection"
  /\ props.getFeatureId = "byGeometry"
  /\ Len(stateRef.features) = 2
  /\ stateRef.features[2].id = 11
  /\ Get(stateRef.features[2].feature, "properties") = Obj(<<>>)

\* the documents that hold a coordinate whose projection is not finite
PolarDocs == {"polar"}
FiniteViewport ==
  /\ IsFinite(stateRef.viewport.scale)
  /\ IsFinite(stateRef.viewport.translateX) /\ IsFinite(stateRef.viewport.translateY)

\* C9: with an input that holds a coordinate of non-finite projection, the
\* bounds and the fitted viewport stay finite and no arc, moveTo or lineTo
\* call receives a non-finite argument.
C9_NonFiniteSkipped ==
  (phase # "initial" /\ props.geojson \in PolarDocs /\ changes = 0)
  => /\ stateRef.featureBounds.present => FiniteBounds(stateRef.featureBounds)
     /\ FiniteViewport
     /\ \A n \in 1..Len(surface.calls) :
          IsFinite(surface.calls[n].x) /\ IsFinite(surface.calls[n].y)

\* C10: no operation throws, whatever the input.
C10_NeverThrows == ~last.threw

\* what an operation leaves behind when it did nothing and reported nothing
NoOpResult == [threw |-> FALSE, st |-> stateRef, surface |-> surface]
\* render, fitBounds and hitTest, called in the current state, do nothing
CallsAreNoOps ==
  /\ render(stateRef, surface, canvasRef, props.size, props.styles, props.geojson)
       = [threw |-> FALSE, surface |-> surface]
  /\ fitBounds(stateRef, surface, canvasRef, props.size, props.padding,
               props.styles, props.geojson) = NoOpResult
  /\ \A pt \in Pointer : HitAt(pt) = [threw |-> FALSE, hit |-> 0]
\* a step that drew nothing, kept the viewport, emitted no event, exported
\* nothing and reported no error
QuietStep ==
  /\ stateRef' = stateRef
  /\ surface' = surface
  /\ ~last'.threw /\ ~last'.hover /\ ~last'.click /\ ~last'.exported

\* C11: while the canvas is not attached (before the first commit, or after
\* the component was removed, a deferred auto-fit possibly still pending),
\* render, fitBounds and hitTest are no-ops that report no error, and every
\* step taken after the removal draws nothing, leaves the viewport
\* unchanged, emits no hover or click event and exports nothing.
C11_DetachedNoOp ==
  /\ [](~canvasRef => CallsAreNoOps)
  /\ [][(~canvasRef /\ phase = "unmounted") => QuietStep]_vars

\* C11 witness: the deferred auto-fit ran after the component was removed,
\* with bounds present, and changed nothing
C11_Witness ==
  /\ phase = "unmounted" /\ ~canvasRef
  /\ last.op = "frame" /\ ~last.threw /\ frames = <<>>
  /\ FiniteBounds(stateRef.featureBounds)
  /\ stateRef.features # <<>>
  /\ stateRef.viewport = InitialViewport
  /\ ~surface.painted

====
